---- MODULE Spec2Model ----
(***************************************************************************)
(* OMEN Battery charge-limit monitor (src/src/omen_battery/main.py).       *)
(*                                                                         *)
(* The model covers the telemetry-to-decision pipeline: the persisted      *)
(* state file, the in-memory state dict of BatteryPanel, the handlers      *)
(* BatteryPanel.__init__, BatteryPanel._refresh (8 s timer),               *)
(* BatteryPanel._toggle_topup (button click), App._update_tray (15 s       *)
(* timer) and QApplication.quit.  All handlers run on the Qt main thread,  *)
(* so each handler is one atomic action.                                   *)
(*                                                                         *)
(* Python values are tagged records [k, v] so that the dynamic typing of   *)
(* the state dict (json.loads is not validated) is part of the model.      *)
(***************************************************************************)
EXTENDS Integers, Sequences, FiniteSets, TLC

\* ---------------------------------------------------------------- bounds
\* Capacities read from sysfs lie within MaxDelta of the default limit or
\* of the full mark (plus 0, the value sysint substitutes for a failed read).
MaxDelta == 1

\* ------------------------------------------------------ program constants
DefaultLimit == 80
FullPct == 100
Unnotified == -1

\* ---------------------------------------------------------- Python values
PyInt(n) == [k |-> "int", v |-> n]
PyBool(b) == [k |-> "bool", v |-> IF b THEN 1 ELSE 0]
PyStr == [k |-> "str", v |-> 0]          \* some non-empty, non-numeric string
PyNone == [k |-> "none", v |-> 0]        \* key not present in the dict

IsNum(x) == x.k \in {"int", "bool"}
\* bool(x)
Truthy(x) == IF IsNum(x) THEN x.v # 0 ELSE x.k = "str"
\* x != y  (bool is a subclass of int; a str never equals a number)
PyNe(x, y) == IF IsNum(x) /\ IsNum(y) THEN x.v # y.v ELSE x.k # y.k
\* x >= y is defined for two numbers only; otherwise Python raises TypeError
Comparable(x, y) == IsNum(x) /\ IsNum(y)
PyGe(x, y) == x.v >= y.v

\* --------------------------------------------------------------- the dict
Dict(l, t, n) == [kind |-> "dict", limit |-> l, top_up_active |-> t, notified_at |-> n]
\* a JSON document that parses to something that is not an object
NonDict == [kind |-> "list", limit |-> PyNone, top_up_active |-> PyNone, notified_at |-> PyNone]
\* no dict at all (process not running / no document)
NoState == [kind |-> "none", limit |-> PyNone, top_up_active |-> PyNone, notified_at |-> PyNone]

\* s.get(key, default)
GetLimit(s) == IF s.limit.k = "none" THEN PyInt(DefaultLimit) ELSE s.limit
GetTopup(s) == IF s.top_up_active.k = "none" THEN PyBool(FALSE) ELSE s.top_up_active
GetNotifiedAt(s) == IF s.notified_at.k = "none" THEN PyInt(Unnotified) ELSE s.notified_at

\* ------------------------------------------------------------- state file
DefaultState == Dict(PyInt(DefaultLimit), PyBool(FALSE), PyInt(Unnotified))

FileAbsent == [kind |-> "absent", doc |-> NoState]
FileUnreadable == [kind |-> "unreadable", doc |-> NoState]
FileGarbage == [kind |-> "garbage", doc |-> NoState]
\* json.dumps(s) written to STATE_FILE
Dumps(s) == [kind |-> "json", doc |-> s]

\* load_state(): any exception of read_text / json.loads yields the defaults;
\* a document that parses is returned as it is.
load_state(f) == IF f.kind = "json" THEN f.doc ELSE DefaultState

\* variant: the write is lost although it reports success
save_state_NoWrite(f, s, ok) == f

\* save_state(s) under a file system that accepts (ok) or rejects the write
save_state(f, s, ok) == IF ok THEN Dumps(s) ELSE f

\* ---------------------------------------------------------------- effects
\* the external calls of a handler, in program order
NotifyEff(kind, ok) == [e |-> "notify", kind |-> kind, ok |-> ok, doc |-> NoState]
SaveEff(s, ok) == [e |-> "save", kind |-> "state", ok |-> ok, doc |-> s]

\* --------------------------------------------------------------- snapshot
Capacities == {c \in 0..FullPct : \/ c = 0
                                  \/ (c >= DefaultLimit - MaxDelta /\ c <= DefaultLimit + MaxDelta)
                                  \/ c >= FullPct - MaxDelta}
\* BattData(): capacity and ac_online are ints read by sysint
BattData == [capacity : Capacities, ac_online : {0, 1}]

\* ------------------------------------------------ BatteryPanel._refresh()
\* variant: the top-up override is not applied to the limit
EffectiveLimit_IgnoresTopup(s) == GetLimit(s)

\* effective_limit = 100 if topup else limit
EffectiveLimit(s) == IF Truthy(GetTopup(s)) THEN PyInt(FullPct) ELSE GetLimit(s)

\* d.capacity >= effective_limit is evaluated only when d.ac_online is truthy
\* (short-circuit "and"); it raises TypeError when the limit is not a number
CompareRaises(d, s) == d.ac_online # 0 /\ ~Comparable(PyInt(d.capacity), EffectiveLimit(s))

\* variant: the capacity is compared with ">" instead of ">="
ShouldNotify_Strict(d, s) ==
    /\ d.ac_online # 0
    /\ d.capacity > EffectiveLimit(s).v
    /\ PyNe(GetNotifiedAt(s), PyInt(d.capacity))

\* if d.ac_online and d.capacity >= effective_limit and notified_at != d.capacity
ShouldNotify(d, s) ==
    /\ d.ac_online # 0
    /\ PyGe(PyInt(d.capacity), EffectiveLimit(s))
    /\ PyNe(GetNotifiedAt(s), PyInt(d.capacity))

\* variant: the "not" of the unplug test is missing
ShouldClear_OnAc(d, s) == d.ac_online # 0 /\ PyNe(GetNotifiedAt(s), PyInt(Unnotified))

\* variant: notified_at is also re-armed when the capacity is below the limit
ShouldClear_BelowLimit(d, s) ==
    /\ \/ d.ac_online = 0
       \/ IsNum(EffectiveLimit(s)) /\ d.capacity < EffectiveLimit(s).v
    /\ PyNe(GetNotifiedAt(s), PyInt(Unnotified))

\* if not d.ac_online and notified_at != -1
ShouldClear(d, s) == d.ac_online = 0 /\ PyNe(GetNotifiedAt(s), PyInt(Unnotified))

\* variant: the top-up branch sends the limit alert
NotifyKind_AlwaysLimit(s) == "limit"

\* which notification the charge-limit branch sends
NotifyKind(s) == IF Truthy(GetTopup(s)) THEN "full" ELSE "limit"

\* variant: notified_at is not recorded
MarkNotified_NoMark(d, s) ==
    [s EXCEPT !.top_up_active = IF Truthy(GetTopup(s)) THEN PyBool(FALSE) ELSE @]

\* the assignments of the charge-limit branch
\* (top_up_active = False in the top-up case, then notified_at = d.capacity)
MarkNotified(d, s) ==
    [s EXCEPT !.top_up_active = IF Truthy(GetTopup(s)) THEN PyBool(FALSE) ELSE @,
              !.notified_at = PyInt(d.capacity)]

\* self._state["notified_at"] = -1
ClearNotified(s) == [s EXCEPT !.notified_at = PyInt(Unnotified)]

\* result of running a piece of a handler
Res(s, b, f, eff, raised) == [state |-> s, btn |-> b, file |-> f, eff |-> eff, raised |-> raised]

\* One execution of _refresh on state dict s, button state b and file f with
\* snapshot d.  fs: the state file can be written; sink: notify-send can be
\* spawned.  An exception leaves the handler at the statement that raised.
Refresh(s, b, f, d, fs, sink) ==
    IF s.kind # "dict"
    THEN Res(s, b, f, <<>>, TRUE)                       \* s.get: AttributeError
    ELSE LET b1 == Truthy(GetTopup(s))                  \* setChecked(topup)
         IN  IF CompareRaises(d, s)
             THEN Res(s, b1, f, <<>>, TRUE)             \* TypeError
             ELSE IF ShouldNotify(d, s)
             THEN IF ~sink
                  THEN Res(s, b1, f, <<NotifyEff(NotifyKind(s), FALSE)>>, TRUE)
                  ELSE LET s2 == MarkNotified(d, s)
                           b2 == b1 /\ ~Truthy(GetTopup(s))   \* setChecked(False)
                           eff == <<NotifyEff(NotifyKind(s), TRUE), SaveEff(s2, fs)>>
                       IN  Res(s2, b2, save_state(f, s2, fs), eff, ~fs)
             ELSE IF ShouldClear(d, s)
             THEN LET s3 == ClearNotified(s)
                  IN  Res(s3, b1, save_state(f, s3, fs), <<SaveEff(s3, fs)>>, ~fs)
             ELSE Res(s, b1, f, <<>>, FALSE)

\* --------------------------------------------- BatteryPanel._toggle_topup()
\* variant: notified_at is not re-armed by the toggle
SetTopup_NoRearm(s, checked) == [s EXCEPT !.top_up_active = PyBool(checked)]

\* self._state["top_up_active"] = isChecked(); self._state["notified_at"] = -1
SetTopup(s, checked) ==
    [s EXCEPT !.top_up_active = PyBool(checked), !.notified_at = PyInt(Unnotified)]

\* variant: the "Top Up activated" notification is sent on cancel as well
ToggleHead_NotifiesAlways(s, checked, f, fs, sink) ==
    IF s.kind # "dict"
    THEN Res(s, checked, f, <<>>, TRUE)
    ELSE LET s1 == SetTopup(s, checked)
             e1 == <<SaveEff(s1, fs)>>
         IN  IF ~fs
             THEN Res(s1, checked, f, e1, TRUE)
             ELSE Res(s1, checked, save_state(f, s1, fs),
                      e1 \o <<NotifyEff("topup", sink)>>, ~sink)

\* The statements of _toggle_topup before its trailing self._refresh().
\* checked is the button state after the click that triggered the handler.
ToggleHead(s, checked, f, fs, sink) ==
    IF s.kind # "dict"
    THEN Res(s, checked, f, <<>>, TRUE)                 \* item assignment fails
    ELSE LET s1 == SetTopup(s, checked)
             e1 == <<SaveEff(s1, fs)>>
         IN  IF ~fs
             THEN Res(s1, checked, f, e1, TRUE)
             ELSE IF ~checked
             THEN Res(s1, checked, save_state(f, s1, fs), e1, FALSE)
             ELSE Res(s1, checked, save_state(f, s1, fs),
                      e1 \o <<NotifyEff("topup", sink)>>, ~sink)

\* ------------------------------------------------------------------ state
VARIABLES
    alive,        \* the process is running (App constructed, event loop active)
    state,        \* BatteryPanel._state
    btnChecked,   \* BatteryPanel._btn_topup.isChecked()
    file,         \* content of STATE_FILE
    fsOk,         \* environment: STATE_FILE and its directory can be written
    sinkOk,       \* environment: notify-send can be spawned
    slotAborts,   \* environment: the binding aborts on an exception in a slot
    last,         \* record of the handler that ran last
    flicker       \* observer: progress of the tick sequence L, L-1, L on AC

vars == <<alive, state, btnChecked, file, fsOk, sinkOk, slotAborts, last, flicker>>

NoSnapshot == [capacity |-> 0, ac_online |-> 0]

\* op: the handler; d: the snapshot _refresh read; pre: the dict at handler
\* entry (after load_state for start-up); mid: the dict when _refresh was
\* entered; post: the dict when the handler ended; ran: _refresh was entered;
\* own: the effects before _refresh; eff: the effects of _refresh;
\* raised: the handler ended with an exception;
\* drawn, dt: the tray icon was drawn, from snapshot dt.
Last(op, d, pre, mid, post, ran, own, eff, raised, drawn, dt) ==
    [op |-> op, d |-> d, pre |-> pre, mid |-> mid, post |-> post, ran |-> ran,
     own |-> own, eff |-> eff, raised |-> raised, drawn |-> drawn, dt |-> dt]

\* Observer of consecutive executions of _refresh with AC online, top-up off
\* and a numeric limit L in the dict mid the execution started on:
\*   1  the last one read capacity L and delivered its notification;
\*   2  after 1, the timer tick read capacity L - 1;
\*   3  after 2, the timer tick read capacity L;
\*   0  otherwise.
FlickerNext(f, op, ran, d, mid, eff) ==
    IF ~(/\ ran /\ mid.kind = "dict" /\ d.ac_online # 0
         /\ ~Truthy(GetTopup(mid)) /\ IsNum(GetLimit(mid)))
    THEN 0
    ELSE IF f = 2 /\ op = "tick" /\ d.capacity = GetLimit(mid).v THEN 3
    ELSE IF f = 1 /\ op = "tick" /\ d.capacity = GetLimit(mid).v - 1 THEN 2
    ELSE IF /\ d.capacity = GetLimit(mid).v
            /\ \E i \in 1..Len(eff) : eff[i].e = "notify" /\ eff[i].ok
    THEN 1
    ELSE 0

\* Contents the state file may have when the program is launched for the
\* first time: no usable document; a document an earlier run wrote; a document
\* that parses but lacks a key, holds a value of the wrong type, holds a limit
\* above 100, or is not an object.
Written ==
    {Dict(PyInt(DefaultLimit), PyBool(FALSE), PyInt(Unnotified)),
     Dict(PyInt(DefaultLimit), PyBool(FALSE), PyInt(DefaultLimit)),
     Dict(PyInt(DefaultLimit), PyBool(TRUE), PyInt(Unnotified))}
Malformed ==
    {Dict(PyNone, PyBool(TRUE), PyInt(Unnotified)),
     Dict(PyInt(DefaultLimit), PyNone, PyInt(DefaultLimit)),
     Dict(PyInt(DefaultLimit), PyBool(FALSE), PyNone),
     Dict(PyStr, PyBool(FALSE), PyInt(Unnotified)),
     Dict(PyInt(DefaultLimit), PyBool(TRUE), PyStr),
     Dict(PyInt(FullPct + 1), PyBool(FALSE), PyInt(Unnotified)),
     NonDict}
InitFiles ==
    {FileAbsent, FileUnreadable, FileGarbage} \cup {Dumps(s) : s \in Written \cup Malformed}

\* before the first launch
InitCommon ==
    /\ alive = FALSE
    /\ state = NoState
    /\ btnChecked = FALSE
    /\ file \in InitFiles
    /\ slotAborts \in BOOLEAN
    /\ last = Last("none", NoSnapshot, NoState, NoState, NoState, FALSE, <<>>, <<>>,
                   FALSE, FALSE, NoSnapshot)
    /\ flicker = 0

Init == InitCommon /\ fsOk = TRUE /\ sinkOk = TRUE

\* An exception that leaves a handler: out of __init__ it propagates through
\* main() and ends the process; out of a slot the binding either aborts the
\* process or reports the exception and keeps the event loop running.
AfterHandler(r, aborts) ==
    /\ alive' = ~(r.raised /\ aborts)
    /\ state' = IF alive' THEN r.state ELSE NoState
    /\ btnChecked' = IF alive' THEN r.btn ELSE FALSE
    /\ file' = r.file
    /\ UNCHANGED <<fsOk, sinkOk, slotAborts>>

\* main(): App() -> BatteryPanel.__init__ (load_state, _refresh), then
\* App.__init__ draws the tray from a second BattData()
Startup(d, dt) ==
    /\ ~alive
    /\ LET s0 == load_state(file)
           r == Refresh(s0, FALSE, file, d, fsOk, sinkOk)
       IN  /\ AfterHandler(r, TRUE)
           /\ last' = Last("startup", d, s0, s0, r.state, TRUE, <<>>, r.eff, r.raised,
                           ~r.raised, IF r.raised THEN NoSnapshot ELSE dt)
           /\ flicker' = FlickerNext(flicker, "startup", TRUE, d, s0, r.eff)

\* variant: the tick decides on the copy of the dict the previous handler
\* started from, and writes that copy back
Tick_StaleCopy(d) ==
    /\ alive
    /\ LET s0 == IF last.pre.kind = "dict" THEN last.pre ELSE state
           r == Refresh(s0, btnChecked, file, d, fsOk, sinkOk)
       IN  /\ AfterHandler(r, slotAborts)
           /\ last' = Last("tick", d, s0, s0, r.state, TRUE, <<>>, r.eff, r.raised,
                           FALSE, NoSnapshot)
           /\ flicker' = FlickerNext(flicker, "tick", TRUE, d, s0, r.eff)

\* self._timer timeout -> _refresh
Tick(d) ==
    /\ alive
    /\ LET r == Refresh(state, btnChecked, file, d, fsOk, sinkOk)
       IN  /\ AfterHandler(r, slotAborts)
           /\ last' = Last("tick", d, state, state, r.state, TRUE, <<>>, r.eff, r.raised,
                           FALSE, NoSnapshot)
           /\ flicker' = FlickerNext(flicker, "tick", TRUE, d, state, r.eff)

\* click on the Top Up button: Qt flips the checked state, then the slot runs
\* _toggle_topup, which ends with self._refresh()
Toggle(d) ==
    /\ alive
    /\ LET h == ToggleHead(state, ~btnChecked, file, fsOk, sinkOk)
           r == IF h.raised THEN h ELSE Refresh(h.state, h.btn, h.file, d, fsOk, sinkOk)
       IN  /\ AfterHandler(r, slotAborts)
           /\ last' = Last("toggle", IF h.raised THEN NoSnapshot ELSE d,
                           state, h.state, r.state, ~h.raised,
                           h.eff, IF h.raised THEN <<>> ELSE r.eff, r.raised,
                           FALSE, NoSnapshot)
           /\ flicker' = FlickerNext(flicker, "toggle", ~h.raised, d, h.state,
                                     IF h.raised THEN <<>> ELSE r.eff)

\* self._tray_timer timeout -> App._update_tray: reads a snapshot, draws it
UpdateTray(dt) ==
    /\ alive
    /\ last' = Last("tray", NoSnapshot, state, state, state, FALSE, <<>>, <<>>, FALSE,
                    TRUE, dt)
    /\ flicker' = IF flicker = 3 THEN 0 ELSE flicker   \* not a tick of the sequence
    /\ UNCHANGED <<alive, state, btnChecked, file, fsOk, sinkOk, slotAborts>>

\* tray menu "Quit" -> QApplication.quit
Quit ==
    /\ alive
    /\ alive' = FALSE
    /\ state' = NoState
    /\ btnChecked' = FALSE
    /\ last' = Last("quit", NoSnapshot, state, state, state, FALSE, <<>>, <<>>, FALSE,
                    FALSE, NoSnapshot)
    /\ flicker' = 0
    /\ UNCHANGED <<file, fsOk, sinkOk, slotAborts>>

Next ==
    \/ \E d \in BattData, dt \in BattData : Startup(d, dt)
    \/ \E d \in BattData : Tick(d)
    \/ \E d \in BattData : Toggle(d)
    \/ \E dt \in BattData : UpdateTray(dt)
    \/ Quit

\* the environment in which the state file is writable and notify-send exists
Spec == Init /\ [][Next]_vars

\* the environment in which writes and the spawn of notify-send may fail
InitFaults == InitCommon /\ fsOk \in BOOLEAN /\ sinkOk \in BOOLEAN

\* the state directory becomes (un)writable, notify-send (un)available
EnvChange ==
    /\ \/ fsOk' = ~fsOk /\ UNCHANGED sinkOk
       \/ sinkOk' = ~sinkOk /\ UNCHANGED fsOk
    /\ UNCHANGED <<alive, state, btnChecked, file, slotAborts, last, flicker>>

NextFaults == Next \/ EnvChange

SpecFaults == InitFaults /\ [][NextFaults]_vars

\* ======================================================================
\* Properties
\* ======================================================================

\* the kinds of the notifications a sequence of effects delivered
IsSent(x) == x.e = "notify" /\ x.ok
Sent(eff) == LET s == SelectSeq(eff, IsSent) IN [i \in 1..Len(s) |-> s[i].kind]
\* some effect of the given kind ("save" or "notify") failed
Some(eff, kind) == \E i \in 1..Len(eff) : eff[i].e = kind /\ ~eff[i].ok

\* the policy state as the data model reads a dict
IsDict(s) == s.kind = "dict"
topUpActive(s) == s.top_up_active = PyBool(TRUE)
limitIsInt(s) == s.limit.k \in {"int", "none"}
limit(s) == IF s.limit.k = "none" THEN DefaultLimit ELSE s.limit.v
effectiveLimit(s) == IF topUpActive(s) THEN FullPct ELSE limit(s)
\* the limit in force is a number (the comparison with the capacity is defined)
limitDefined(s) == topUpActive(s) \/ limitIsInt(s)
notifiedAtIs(s, n) ==
    \/ s.notified_at = PyInt(n)
    \/ s.notified_at.k = "none" /\ n = Unnotified

\* a tick: one execution of _refresh (by the timer, at start-up, or at the
\* end of the toggle handler) on a state dict
TickRan == last.ran /\ IsDict(last.mid)
capacityPct == last.d.capacity
acOnline == last.d.ac_online # 0

\* ---------------------------------------------------------------------- C1
\* C1: a tick with AC online, capacityPct >= effectiveLimit and
\* notifiedAt # capacityPct delivers exactly one notification and leaves
\* notifiedAt = capacityPct (also when the previous notification was one
\* percent lower).
C1_NotifiesAtOrAboveLimit ==
    (/\ TickRan
     /\ acOnline
     /\ limitDefined(last.mid)
     /\ capacityPct >= effectiveLimit(last.mid)
     /\ ~notifiedAtIs(last.mid, capacityPct))
    => (/\ Len(Sent(last.eff)) = 1
        /\ notifiedAtIs(last.post, capacityPct))

\* re-arm: notified at c = limit before, the timer tick reads c + 1
C1_Witness ==
    /\ last.op = "tick"
    /\ acOnline
    /\ ~topUpActive(last.mid)
    /\ capacityPct - 1 = limit(last.mid)
    /\ notifiedAtIs(last.mid, capacityPct - 1)
    /\ Sent(last.eff) = <<"limit">>
    /\ notifiedAtIs(last.post, capacityPct)

\* ---------------------------------------------------------------------- C2
\* C2: a tick with AC offline delivers no notification and leaves
\* notifiedAt = -1, whatever capacity, limit, topUpActive and notifiedAt are.
C2_OfflineNeverNotifies ==
    (TickRan /\ ~acOnline)
    => (Sent(last.eff) = <<>> /\ notifiedAtIs(last.post, Unnotified))

C2_Witness ==
    /\ last.op = "tick"
    /\ ~acOnline
    /\ capacityPct < DefaultLimit
    /\ notifiedAtIs(last.mid, DefaultLimit)
    /\ Sent(last.eff) = <<>>
    /\ last.post.notified_at = PyInt(Unnotified)

\* ---------------------------------------------------------------------- C3
\* C3: a second tick with the same snapshot on the state the first tick
\* produced delivers no notification and does not change the state, also
\* when the first tick was the "battery full" one that cleared topUpActive.
SecondTick == Refresh(last.post, btnChecked, file, last.d, fsOk, sinkOk)

C3_DedupIdempotent ==
    TickRan => (Sent(SecondTick.eff) = <<>> /\ SecondTick.state = last.post)

C3_Witness ==
    /\ last.op = "tick"
    /\ topUpActive(last.mid)
    /\ acOnline /\ capacityPct = FullPct
    /\ Sent(last.eff) = <<"full">>
    /\ ~topUpActive(last.post)
    /\ limit(last.post) < FullPct
    /\ SecondTick.eff = <<>>
    /\ SecondTick.state = last.post

\* ---------------------------------------------------------------------- C4
\* C4: a tick with topUpActive, capacityPct = 100 and AC online leaves
\* topUpActive = false, and what it sends is the "battery full" notification,
\* never the "limit reached" one.
C4_TopUpAutoClear ==
    (TickRan /\ topUpActive(last.mid) /\ acOnline /\ capacityPct = FullPct)
    => (/\ ~topUpActive(last.post)
        /\ last.post.top_up_active = PyBool(FALSE)
        /\ Sent(last.eff) = <<"full">>)

C4_Witness ==
    /\ last.op = "tick"
    /\ topUpActive(last.mid)
    /\ acOnline /\ capacityPct = FullPct
    /\ last.post.top_up_active = PyBool(FALSE)
    /\ Sent(last.eff) = <<"full">>
    /\ Len(last.eff) = 2

\* ---------------------------------------------------------------------- C5
\* C5: a tick with AC online and capacityPct < effectiveLimit delivers no
\* notification and changes none of limit, topUpActive, notifiedAt.  While
\* topUpActive is true no tick sends the limit alert, and topUpActive stays
\* true over every tick (AC online or not) that is not at 100% on AC.
C5_BelowThresholdFrame ==
    /\ (TickRan /\ acOnline /\ limitDefined(last.mid)
            /\ capacityPct < effectiveLimit(last.mid))
       => (Sent(last.eff) = <<>> /\ last.post = last.mid)
    /\ (TickRan /\ topUpActive(last.mid))
       => (/\ \A i \in 1..Len(Sent(last.eff)) : Sent(last.eff)[i] # "limit"
           /\ ~(acOnline /\ capacityPct >= FullPct) => topUpActive(last.post))

\* top-up active, AC online, capacity in [limit, 100): nothing happens
C5_Witness ==
    /\ last.op = "tick"
    /\ topUpActive(last.mid)
    /\ acOnline
    /\ capacityPct >= limit(last.mid) /\ capacityPct < FullPct
    /\ last.eff = <<>>
    /\ last.post = last.mid
    /\ topUpActive(last.post)

\* ---------------------------------------------------------------------- C6
\* the toggle handler ran on a state with topUpActive = true (a cancel)
CancelRan == last.op = "toggle" /\ IsDict(last.pre) /\ topUpActive(last.pre)

\* C6 as stated: after the user cancels top-up, whatever the snapshot, the
\* state after the toggle action has topUpActive = false and notifiedAt = -1
\* and the toggle action delivered no notification.
C6_Original ==
    CancelRan
    => (/\ ~topUpActive(last.post)
        /\ notifiedAtIs(last.post, Unnotified)
        /\ Sent(last.own \o last.eff) = <<>>)

\* C6 amended: the cancel sets topUpActive = false and notifiedAt = -1 and
\* sends nothing itself; the handler then runs a tick on that state.  After
\* the handler topUpActive = false; with AC online and capacityPct >= limit
\* that tick sends the limit alert and leaves notifiedAt = capacityPct,
\* otherwise nothing is sent and notifiedAt = -1.
C6_CancelThenTick ==
    CancelRan
    => (/\ Sent(last.own) = <<>>
        /\ last.mid.top_up_active = PyBool(FALSE)
        /\ last.mid.notified_at = PyInt(Unnotified)
        /\ last.ran
        /\ last.post.top_up_active = PyBool(FALSE)
        /\ IF acOnline /\ limitIsInt(last.mid) /\ capacityPct >= limit(last.mid)
           THEN Sent(last.eff) = <<"limit">> /\ notifiedAtIs(last.post, capacityPct)
           ELSE Sent(last.eff) = <<>> /\ last.post = last.mid)

C6_Witness ==
    /\ CancelRan
    /\ acOnline
    /\ capacityPct >= limit(last.mid) /\ capacityPct < FullPct
    /\ Sent(last.own) = <<>>
    /\ Sent(last.eff) = <<"limit">>
    /\ last.post.top_up_active = PyBool(FALSE)
    /\ last.post.notified_at = PyInt(capacityPct)

\* ---------------------------------------------------------------------- C7
\* the toggle handler ran on a state with topUpActive = false (an activation)
ActivateRan == last.op = "toggle" /\ IsDict(last.pre) /\ ~topUpActive(last.pre)

\* C7 as stated: after the user activates top-up, whatever the snapshot, the
\* state after the toggle action has topUpActive = true and notifiedAt = -1
\* and the action delivered the "top-up activated" notification and no other.
C7_Original ==
    ActivateRan
    => (/\ topUpActive(last.post)
        /\ notifiedAtIs(last.post, Unnotified)
        /\ Sent(last.own \o last.eff) = <<"topup">>)

\* C7 amended: the activation sets topUpActive = true and notifiedAt = -1
\* and sends "top-up activated"; the handler then runs a tick on that state.
\* With AC online and capacityPct = 100 that tick sends "battery full" and
\* leaves topUpActive = false and notifiedAt = 100; for every other snapshot
\* it sends nothing and the state stays topUpActive = true, notifiedAt = -1.
C7_ActivateThenTick ==
    ActivateRan
    => (/\ Sent(last.own) = <<"topup">>
        /\ last.mid.top_up_active = PyBool(TRUE)
        /\ last.mid.notified_at = PyInt(Unnotified)
        /\ last.ran
        /\ IF acOnline /\ capacityPct >= FullPct
           THEN /\ Sent(last.eff) = <<"full">>
                /\ last.post.top_up_active = PyBool(FALSE)
                /\ notifiedAtIs(last.post, capacityPct)
           ELSE Sent(last.eff) = <<>> /\ last.post = last.mid)

C7_Witness ==
    /\ ActivateRan
    /\ acOnline /\ capacityPct = FullPct
    /\ Sent(last.own) = <<"topup">>
    /\ Sent(last.eff) = <<"full">>
    /\ last.post.top_up_active = PyBool(FALSE)
    /\ last.post.notified_at = PyInt(FullPct)

\* ---------------------------------------------------------------------- C8
\* structural validation of a loaded state
Valid(s) ==
    /\ IsDict(s)
    /\ s.limit.k = "int" /\ s.limit.v \in 0..FullPct
    /\ s.top_up_active.k = "bool"
    /\ s.notified_at.k = "int"

\* C8: load() returns the defaults for every store content that is absent,
\* unreadable or fails structural validation, so the state the policy starts
\* on has all three fields, of the right types, with limit in 0..100.
C8_LoadValidates == last.op = "startup" => Valid(last.pre)

\* ---------------------------------------------------------------------- C9
\* C9: a failed save is not propagated: the handler in which it fails
\* returns normally and the process keeps running.
C9_SaveFailureNotPropagated ==
    Some(last.own \o last.eff, "save") => (~last.raised /\ alive)

\* --------------------------------------------------------------------- C10
\* C10: a failed notification dispatch is not propagated and does not affect
\* the bookkeeping: the tick that decided to notify at capacity c leaves
\* notifiedAt = c (and topUpActive cleared in the top-up case).
C10_DispatchFailureIgnored ==
    (TickRan /\ Some(last.eff, "notify"))
    => (/\ ~last.raised
        /\ notifiedAtIs(last.post, capacityPct)
        /\ ~topUpActive(last.post))

\* --------------------------------------------------------------------- C11
\* One step of the event loop, seen from the policy state:
\*  - a tray refresh changes neither the dict, the button nor the file;
\*  - a tick or a toggle starts from the dict the previous handler left;
\*  - a tick changes topUpActive only by the auto-clear at 100% on AC, so
\*    the most recent toggle stays in force;
\*  - what a tick or a toggle writes to the file is the dict it leaves, and
\*    a completed toggle is always written.
C11_Step ==
    /\ last'.op = "tray"
       => (state' = state /\ file' = file /\ btnChecked' = btnChecked /\ alive' = alive)
    /\ (alive /\ last'.op \in {"tick", "toggle"})
       => (last'.pre = state /\ last'.pre = last.post)
    /\ (alive /\ last'.op = "tick" /\ IsDict(state))
       => \/ last'.post.top_up_active = state.top_up_active
          \/ /\ topUpActive(state)
             /\ last'.d.ac_online # 0 /\ last'.d.capacity >= FullPct
             /\ last'.post.top_up_active = PyBool(FALSE)
    /\ (last'.op \in {"tick", "toggle"} /\ file' # file) => file' = Dumps(last'.post)
    /\ (last'.op = "toggle" /\ ~last'.raised) => file' = Dumps(state')

\* C11: handlers do not interleave on the policy state; a toggle is never
\* lost or overwritten by a tick working from a stale copy; the state in
\* memory and on file reflects the most recent toggle plus the ticks after
\* it; tray refreshes never modify the policy state.
C11_HandlersSerialized == [][C11_Step]_vars

\* a timer tick that ran on the state a toggle-on produced and persisted:
\* top-up is still in force in memory and on file
C11_Witness ==
    /\ last.op = "tick"
    /\ alive
    /\ btnChecked
    /\ last.pre = Dict(PyInt(DefaultLimit), PyBool(TRUE), PyInt(Unnotified))
    /\ acOnline /\ capacityPct >= DefaultLimit /\ capacityPct < FullPct
    /\ state = last.pre
    /\ file = Dumps(state)

\* --------------------------------------------------------------------- C12
\* C12: in every tick that notifies, the state change is persisted before the
\* notification is dispatched (every notify effect of the tick is preceded by
\* a save effect of the same tick).
C12_PersistBeforeNotify ==
    TickRan
    => \A i \in 1..Len(last.eff) :
          last.eff[i].e = "notify"
          => \E j \in 1..(i - 1) : last.eff[j].e = "save"

\* --------------------------------------------------------------------- C13
\* C13 as stated: with AC online throughout, topUpActive = false and limit L,
\* the ticks at capacities L, L-1, L notify on the first tick and notify
\* again on the return to L.  (flicker = 3 says: the first of the three
\* ticks notified, and the third has just run.)
C13_Original == flicker = 3 => Sent(last.eff) = <<"limit">>

\* C13 amended: with AC online throughout, topUpActive = false and limit L,
\* the ticks at capacities L, L-1, L notify on the first tick only: the tick
\* at L-1 leaves notifiedAt = L, so the tick on the return to L sends
\* nothing and changes nothing.
C13_FlickerDeduplicated ==
    flicker = 3
    => (/\ last.op = "tick"
        /\ last.eff = <<>>
        /\ last.post = last.pre
        /\ notifiedAtIs(last.post, capacityPct)
        /\ capacityPct = limit(last.post))

C13_Witness ==
    /\ flicker = 3
    /\ last.op = "tick"
    /\ acOnline
    /\ capacityPct = DefaultLimit
    /\ state = Dict(PyInt(DefaultLimit), PyBool(FALSE), PyInt(DefaultLimit))
    /\ Sent(last.eff) = <<>>

\* --------------------------------------------------------------------- C14
\* One step, seen from the persisted state (all saves succeed):
\*  - after the handler, load_state() of the file is the dict in memory;
\*  - a handler that changed the dict saved it, and its last save wrote the
\*    dict it left;
\*  - a start-up after the process ended resumes with the dict the last
\*    handler left, and does not notify again at a capacity already notified.
C14_Step ==
    /\ alive' => load_state(file') = state'
    /\ (last'.op \in {"startup", "tick", "toggle"} /\ last'.post # last'.pre)
       => LET all == last'.own \o last'.eff
          IN  \E i \in 1..Len(all) :
                  /\ all[i] = SaveEff(last'.post, TRUE)
                  /\ \A j \in (i + 1)..Len(all) : all[j].e # "save"
    /\ (last'.op = "startup" /\ last.op # "none")
       => /\ last'.pre = last.post
          /\ (last'.d.ac_online # 0 /\ notifiedAtIs(last.post, last'.d.capacity))
             => Sent(last'.eff) = <<>>

\* C14: provided every save succeeds, after every completed handler the
\* state load() would return equals the state in memory; every mutation in
\* memory is followed by a save in the same handler; a restart at a handler
\* boundary resumes with the same state and repeats no notification.
C14_PersistedMatchesMemory == [][C14_Step]_vars

\* a restart on a state an earlier handler wrote (notified at limit + 1),
\* at that same capacity on AC: nothing is sent again
C14_Witness ==
    /\ last.op = "startup"
    /\ alive
    /\ acOnline
    /\ capacityPct = DefaultLimit + 1
    /\ last.pre.notified_at = PyInt(DefaultLimit + 1)
    /\ Sent(last.eff) = <<>>
    /\ state = last.pre
    /\ load_state(file) = state

====
